---- MODULE Spec2Model ----
(***************************************************************************)
(* FluxPro11WithFinetune (src/__init__.py): one invocation of the node's   *)
(* entry point process(mode, x_key, **kwargs), or one direct call of       *)
(* get_result(task_id, output_format, x_key, attempt=1, max_attempts=m).   *)
(*                                                                         *)
(* The remote service, the file system, the image decoder and the clock    *)
(* are the environment: every call to them is one step whose outcome is    *)
(* chosen nondeterministically (a response, or an exception).              *)
(***************************************************************************)
EXTENDS Integers, Sequences, FiniteSets, TLC

\* ------------------------------------------------------------------ bounds
\* Budgets tried for a direct call of get_result: 1..MaxBudget, and the default.
MaxBudget == 3

\* ------------------------------------------------------- program constants
DefaultMaxAttempts == 15
SeedSentinel == -1
WaitOffset == 5
WaitCap == 30

VARIABLES
    entry,        \* "process" | "get_result": the method the caller invoked
    mode,         \* process's mode argument
    x_key,        \* the credential argument
    kwargs,       \* process's **kwargs: a record whose domain is the keys supplied
    zip_state,    \* what the file system holds at kwargs.finetune_zip
    max_attempts, \* get_result's max_attempts
    pc,           \* where the invocation stands
    attempt,      \* get_result's attempt, of the innermost active call
    posts,        \* the submission POSTs issued: <<[url, json, headers]>>
    waits,        \* the time.sleep durations, in order
    nQueries,     \* status GETs issued
    nDownloads,   \* image download GETs issued
    last,         \* the latest external event and its outcome
    onlyPendingOrFailed, \* every status query so far: Pending, non-200 or exception
    readySeen,    \* Ready status responses so far: "none", "once", "more"
    pendingRun,   \* status answers so far: "all" Pending, all but the latest
                  \* ("until_last"), or "broken" earlier
    lastGet,      \* the latest GET request sent: [url, headers]
    zip_read,     \* whether the archive at kwargs.finetune_zip was opened and read
    ret           \* the tuple returned to the caller (<<>> until it returns)

vars == <<entry, mode, x_key, kwargs, zip_state, max_attempts, pc, attempt,
          posts, waits, nQueries, nDownloads, last, onlyPendingOrFailed,
          readySeen, pendingRun, lastGet, zip_read, ret>>

\* ------------------------------------------------------------------ helpers
Has(d, k) == k \in DOMAIN d

Restrict(d, S) == [k \in S |-> d[k]]

\* Python's {**a, **b}: b's keys win.
Merge(a, b) == [k \in (DOMAIN a) \cup (DOMAIN b) |-> IF k \in DOMAIN b THEN b[k] ELSE a[k]]

RECURSIVE Pow2(_)
Pow2(n) == IF n <= 0 THEN 1 ELSE 2 * Pow2(n - 1)

Min(a, b) == IF a < b THEN a ELSE b

Event(ev, code, out) == [ev |-> ev, code |-> code, out |-> out]

\* ----------------------------------------------------------- pure functions
\* create_blank_image: the 1-tuple holding the 512x512 black image.
create_blank_image == <<"blank">>

\* get_dimensions_from_ratio
regular_dimensions ==
    [r \in {"1:1", "4:3", "3:4", "16:9", "9:16", "21:9", "9:21"} |->
        CASE r = "1:1"  -> <<1024, 1024>>
          [] r = "4:3"  -> <<1408, 1024>>
          [] r = "3:4"  -> <<1024, 1408>>
          [] r = "16:9" -> <<1408, 800>>
          [] r = "9:16" -> <<800, 1408>>
          [] r = "21:9" -> <<1408, 608>>
          [] r = "9:21" -> <<608, 1408>>]

get_dimensions_from_ratio(aspect_ratio) ==
    IF aspect_ratio \in DOMAIN regular_dimensions
    THEN regular_dimensions[aspect_ratio]
    ELSE <<1408, 800>>

\* Mutant of wait_time: the exponent counts attempts from 0.
wait_time_zero_based(a) == Min(Pow2(a - 1) + WaitOffset, WaitCap)

\* Mutant of wait_time: the cap of 30 seconds is left out.
wait_time_uncapped(a) == Pow2(a) + WaitOffset

\* wait_time = min(2 ** attempt + 5, 30)
wait_time(a) == Min(Pow2(a) + WaitOffset, WaitCap)

\* Mutant of Exhausted: the budget check is off by one.
Exhausted_off_by_one(a, m) == a >= m

\* if attempt > max_attempts: return blank
Exhausted(a, m) == a > m

\* if attempt < max_attempts: retry
MayRetry(a, m) == a < m

\* response.raise_for_status(): raises for 4xx and 5xx
RaisesForStatus(code) == code >= 400 /\ code < 600

\* ------------------------------------------------------------------ inputs
\* The required inputs of INPUT_TYPES are always supplied; the optional ones
\* (seed, finetune_zip, finetune_comment, finetune_id) may be left out.
Prompts == {"", "a cat"}
AspectInputs == {"21:9", "16:9", "4:3", "1:1", "3:4", "9:16", "9:21", "2:1"}
Formats == {"jpeg", "png"}
Seeds == {SeedSentinel, 42}
Keys == {"", "key-1"}

RequiredKwargs(p, u, a, f) ==
    [prompt |-> p, ultra_mode |-> u, aspect_ratio |-> a, safety_tolerance |-> 6,
     output_format |-> f, raw |-> FALSE]

WithSeed(S) == {[seed |-> s] : s \in S}
NoKwargs == Restrict([none |-> 0], {})

GenerateKwargs ==
    {Merge(RequiredKwargs(p, u, a, f), o) :
        p \in Prompts, u \in BOOLEAN, a \in AspectInputs, f \in Formats,
        o \in WithSeed(Seeds) \cup {NoKwargs}}

InferenceKwargs ==
    {Merge(RequiredKwargs(p, u, "16:9", f), o) :
        p \in Prompts, u \in BOOLEAN, f \in Formats,
        o \in {Merge(s, i) : s \in WithSeed(Seeds) \cup {NoKwargs},
                             i \in {NoKwargs, [finetune_id |-> "ft-42"]}}}

FinetuneKwargs ==
    {Merge(RequiredKwargs("", TRUE, "16:9", "png"), o) :
        o \in {NoKwargs, [finetune_zip |-> "/data/set.zip"]}
              \cup {[finetune_zip |-> "/data/set.zip", finetune_comment |-> c] :
                        c \in {"", "my style"}}}

ZipStates == {"missing", "unreadable", "readable"}

Budgets == (1 .. MaxBudget) \cup {DefaultMaxAttempts}

\* ------------------------------------------------------------- environment
\* A response is its status code and what its body amounts to for the code
\* that reads it; code 0 with body "exc" is a requests exception.
Exc == [code |-> 0, body |-> "exc"]
\* 202 is a 2xx that is not 200: raise_for_status lets it pass, == 200 does not.
HttpCodes == {200, 202, 500}
PollCodes == {200, 500}

\* Submission bodies: not JSON; {} ; a JSON value without .get; a dict with
\* neither id; a dict with "id"; a dict with "finetune_id".
SubmitBodies == {"invalid", "empty", "nondict", "noid", "id", "ftid"}
SubmitResponses == {Exc} \cup [code : HttpCodes, body : SubmitBodies]

\* Status bodies: not JSON; a JSON value without .get; status Pending; Ready
\* with result.sample; Ready without a sample; Ready with a result that is no
\* dict; status Error; any other status string; no status field.
StatusBodies == {"invalid", "nondict", "pending", "ready_url", "ready_nourl",
                 "ready_badresult", "error", "other", "nostatus"}
StatusResponses == {Exc} \cup [code : PollCodes, body : StatusBodies]

\* Downloaded bytes: an RGB image, an RGBA image, or bytes PIL cannot open.
DownloadBodies == {"rgb", "rgba", "corrupt"}
DownloadResponses == {Exc} \cup [code : PollCodes, body : DownloadBodies]

NewFinetuneId == "ft-new"

\* ------------------------------------------------------------------- state
Init ==
    /\ \/ /\ entry = "process"
          /\ max_attempts = DefaultMaxAttempts
          /\ pc = "call"
          /\ attempt = 0
          /\ \/ mode = "generate" /\ kwargs \in GenerateKwargs /\ zip_state = "missing"
             \/ mode = "inference" /\ kwargs \in InferenceKwargs /\ zip_state = "missing"
             \/ mode = "finetune" /\ kwargs \in FinetuneKwargs /\ zip_state \in ZipStates
             \/ /\ mode = "upscale"
                /\ kwargs \in {RequiredKwargs(p, TRUE, "16:9", "png") : p \in Prompts}
                /\ zip_state = "missing"
       \/ /\ entry = "get_result"
          /\ mode = "none"
          /\ max_attempts \in Budgets
          /\ pc = "gr_sleep"
          /\ attempt = 1
          /\ kwargs \in {[output_format |-> f] : f \in Formats}
          /\ zip_state = "missing"
    /\ x_key \in Keys
    /\ posts = <<>>
    /\ waits = <<>>
    /\ nQueries = 0
    /\ nDownloads = 0
    /\ last = Event("none", 0, "none")
    /\ onlyPendingOrFailed = TRUE
    /\ readySeen = "none"
    /\ pendingRun = "all"
    /\ lastGet = [url |-> "none", headers |-> NoKwargs]
    /\ zip_read = FALSE
    /\ ret = <<>>

\* ---------------------------------------------------------------- returns
Finish(r) == pc' = "done" /\ ret' = r /\ UNCHANGED attempt

\* process, lines 86 and 89: (*self.create_blank_image(), "")
BlankAndEmpty == create_blank_image \o <<"">>

\* Mutant of ProcessExcept: the handler re-raises, as __init__'s does.
ProcessExcept_reraise == pc' = "raised" /\ UNCHANGED <<ret, attempt>>

\* process's except Exception, lines 87-89
ProcessExcept == Finish(BlankAndEmpty)

\* process line 78-79: img = generate_image(...); return (*img, "")
GenerateReturn(t) == Finish(t \o <<"">>)

\* finetune_inference's returns, lines 243 and 246: (*t, finetune_id)
InferenceReturn(t) == Finish(t \o <<kwargs.finetune_id>>)

\* Mutant of InferenceExcept: the fallback of the other modes, (blank, "").
InferenceExcept_empty_text == Finish(BlankAndEmpty)

\* finetune_inference's except Exception, lines 248-251
InferenceExcept == Finish(create_blank_image \o <<kwargs.finetune_id>>)

\* Mutant of FinetuneReturn: the id of the response is dropped.
FinetuneReturn_drops_id(id) == Finish(BlankAndEmpty)

\* request_finetuning's returns, lines 167, 171, 205: (*blank, id)
FinetuneReturn(id) == Finish(create_blank_image \o <<id>>)

\* request_finetuning's except Exception, lines 207-210
FinetuneExcept == Finish(create_blank_image \o <<"">>)

\* Mutant of GenerateExcept: the submission is tried again.
GenerateExcept_retries == pc' = "call" /\ UNCHANGED <<ret, attempt>>

\* generate_image's except clauses, lines 151-157
GenerateExcept == GenerateReturn(create_blank_image)

\* get_result returns the 1-tuple t to the frame that called it: the caller
\* of a direct call, generate_image (line 145) or finetune_inference (line 246).
GrReturn(t) ==
    CASE entry = "get_result" -> Finish(t)
      [] mode = "generate"    -> GenerateReturn(t)
      [] mode = "inference"   -> InferenceReturn(t)

\* get_result(task_id, output_format, x_key, a, max_attempts), up to its sleep
\* (lines 271-276): every recursive call returns what the inner call returns.
GetResultCall(a) ==
    IF Exhausted(a, max_attempts)
    THEN pc' = "done" /\ attempt' = a
         /\ ret' = CASE entry = "get_result" -> create_blank_image
                     [] mode = "generate"    -> create_blank_image \o <<"">>
                     [] mode = "inference"   -> create_blank_image \o <<kwargs.finetune_id>>
    ELSE pc' = "gr_sleep" /\ attempt' = a /\ ret' = ret

\* Mutant of OnPending: the retry passes attempt, not attempt + 1.
OnPending_no_increment == GetResultCall(attempt)

\* get_result, status Pending (lines 315-317)
OnPending == GetResultCall(attempt + 1)

\* get_result, a status response that is not 200 (lines 323-327, 335)
OnNon200 ==
    IF MayRetry(attempt, max_attempts)
    THEN GetResultCall(attempt + 1)
    ELSE GrReturn(create_blank_image)

\* get_result's except Exception (lines 329-335)
GrExcept ==
    IF MayRetry(attempt, max_attempts)
    THEN GetResultCall(attempt + 1)
    ELSE GrReturn(create_blank_image)

\* Mutant of OnUnexpectedStatus: treated like a failed query, and retried.
OnUnexpectedStatus_retry == OnNon200

\* get_result, a status that is neither Ready nor Pending (lines 318-321)
OnUnexpectedStatus == GrReturn(create_blank_image)

\* get_result, Ready without a sample URL (lines 295-298)
OnNoSampleUrl == GrReturn(create_blank_image)

\* get_result, the download answered with a code other than 200 (lines 301-303)
OnDownloadNon200 == GrReturn(create_blank_image)

\* Mutant of OnDecoded: the decoded image is dropped and polling goes on.
OnDecoded_keeps_polling == OnPending

\* get_result, the image decoded and converted (lines 305-313)
OnDecoded == GrReturn(<<"decoded">>)

\* ------------------------------------------------------- request building
\* generate_image's seed parameter: seed=-1 when the caller leaves it out
SeedArg == IF Has(kwargs, "seed") THEN kwargs.seed ELSE SeedSentinel

\* if seed != -1: arguments["seed"] = seed  (lines 106-107, 119-120)
IncludeSeed(seed) == seed # SeedSentinel

SeedPart(seed) == IF IncludeSeed(seed) THEN [seed |-> seed] ELSE NoKwargs

\* generate_image, lines 99-107
UltraArguments ==
    Merge([prompt |-> kwargs.prompt, aspect_ratio |-> kwargs.aspect_ratio,
           safety_tolerance |-> kwargs.safety_tolerance,
           output_format |-> kwargs.output_format, raw |-> kwargs.raw],
          SeedPart(SeedArg))

\* generate_image, lines 111-120
StandardArguments ==
    Merge([prompt |-> kwargs.prompt,
           width |-> get_dimensions_from_ratio(kwargs.aspect_ratio)[1],
           height |-> get_dimensions_from_ratio(kwargs.aspect_ratio)[2],
           safety_tolerance |-> kwargs.safety_tolerance,
           output_format |-> kwargs.output_format],
          SeedPart(SeedArg))

UltraUrl == "https://api.bfl.ai/v1/flux-pro-1.1-ultra"
StandardUrl == "https://api.bfl.ai/v1/flux-pro-1.1"

\* Mutant of UseUltra: the branches are swapped.
UseUltra_swapped(ultra_mode) == ~ultra_mode

\* if ultra_mode: ... else: ...  (line 98)
UseUltra(ultra_mode) == ultra_mode

GenerateRequest ==
    IF UseUltra(kwargs.ultra_mode)
    THEN [url |-> UltraUrl, json |-> UltraArguments, headers |-> ("x-key" :> x_key)]
    ELSE [url |-> StandardUrl, json |-> StandardArguments, headers |-> ("x-key" :> x_key)]

\* finetune_inference, lines 212-229: the named parameters are taken out of
\* **kwargs, everything else is merged into the payload.
InferenceNamed == {"finetune_id", "prompt", "ultra_mode", "finetune_strength", "x_key"}

InferencePassThrough == Restrict(kwargs, (DOMAIN kwargs) \ InferenceNamed)

InferencePayload ==
    Merge([finetune_id |-> kwargs.finetune_id,
           finetune_strength |-> IF Has(kwargs, "finetune_strength")
                                 THEN kwargs.finetune_strength ELSE "1.2",
           prompt |-> kwargs.prompt],
          InferencePassThrough)

InferenceRequest ==
    [url |-> IF (IF Has(kwargs, "ultra_mode") THEN kwargs.ultra_mode ELSE TRUE)
             THEN "https://api.bfl.ai/v1/flux-pro-1.1-ultra-finetuned"
             ELSE "https://api.bfl.ai/v1/flux-pro-finetuned",
     json |-> InferencePayload,
     headers |-> ("Content-Type" :> "application/json") @@ ("X-Key" :> x_key)]

\* request_finetuning, lines 173-193; the training options are left at the
\* defaults of its signature.
FinetuneRequest ==
    [url |-> "https://api.bfl.ai/v1/finetune",
     json |-> [finetune_comment |-> kwargs.finetune_comment, trigger_word |-> "TOK",
               file_data |-> "base64:" \o kwargs.finetune_zip, iterations |-> 300,
               mode |-> "general", learning_rate |-> "0.00001", captioning |-> TRUE,
               priority |-> "quality", lora_rank |-> 32, finetune_type |-> "full"],
     headers |-> ("Content-Type" :> "application/json") @@ ("X-Key" :> x_key)]

\* ----------------------------------------------------------------- process
\* Binding **kwargs to a method's parameters without defaults: a missing one
\* is a TypeError at the call, inside process's try (lines 75-89).
GenerateRequired == {"prompt", "ultra_mode", "aspect_ratio", "safety_tolerance",
                     "output_format", "raw"}
FinetuneRequired == {"finetune_zip", "finetune_comment"}
InferenceRequired == {"finetune_id", "prompt"}

\* requests.post(url, json=..., headers=...)
Post(req, resp) ==
    /\ posts' = Append(posts, req)
    /\ last' = Event("post", resp.code, resp.body)

\* generate_image after requests.post, lines 130-157
GenerateOnResponse(resp) ==
    CASE resp = Exc             -> GenerateExcept                        \* 151-153
      [] resp.code # 200        -> GenerateReturn(create_blank_image)    \* 146-149
      [] resp.body = "invalid"  -> GenerateExcept                        \* 133, 154-157
      [] resp.body = "empty"    -> GenerateReturn(create_blank_image)    \* 134-136
      [] resp.body = "nondict"  -> GenerateExcept                        \* 138, 154-157
      [] resp.body = "id"       -> GetResultCall(1)                      \* 145
      [] OTHER                  -> GenerateReturn(create_blank_image)    \* 139-142

\* Mutant of EmptyPrompt: the guard is missing.
EmptyPrompt_unchecked(prompt) == FALSE

\* generate_image's guard: if not prompt (line 93)
EmptyPrompt(prompt) == prompt = ""

\* process in generate mode, through generate_image's submission (lines 77-157)
ProcessGenerate ==
    /\ pc = "call"
    /\ mode = "generate"
    /\ IF ~(GenerateRequired \subseteq DOMAIN kwargs)
       THEN ProcessExcept /\ UNCHANGED <<posts, last>>
       ELSE IF EmptyPrompt(kwargs.prompt)
       THEN GenerateReturn(create_blank_image) /\ UNCHANGED <<posts, last>>
       ELSE \E resp \in SubmitResponses :
                Post(GenerateRequest, resp) /\ GenerateOnResponse(resp)
    /\ UNCHANGED <<entry, mode, x_key, kwargs, zip_state, max_attempts, pendingRun, lastGet, zip_read, waits,
                   nQueries, nDownloads, onlyPendingOrFailed, readySeen>>

\* finetune_inference after requests.post, lines 234-251
InferenceOnResponse(resp) ==
    CASE resp = Exc                 -> InferenceExcept                      \* 233
      [] RaisesForStatus(resp.code) -> InferenceExcept                      \* 237
      [] resp.body = "invalid"      -> InferenceExcept                      \* 238
      [] resp.body = "nondict"      -> InferenceExcept                      \* 240
      [] resp.body = "id"           -> GetResultCall(1)                     \* 246
      [] OTHER                      -> InferenceReturn(create_blank_image)  \* 241-243

\* process in inference mode, through finetune_inference's submission
ProcessInference ==
    /\ pc = "call"
    /\ mode = "inference"
    /\ IF ~(InferenceRequired \subseteq DOMAIN kwargs)
       THEN ProcessExcept /\ UNCHANGED <<posts, last>>
       ELSE \E resp \in SubmitResponses :
                Post(InferenceRequest, resp) /\ InferenceOnResponse(resp)
    /\ UNCHANGED <<entry, mode, x_key, kwargs, zip_state, max_attempts, pendingRun, lastGet, zip_read, waits,
                   nQueries, nDownloads, onlyPendingOrFailed, readySeen>>

\* request_finetuning after requests.post, lines 197-210
FinetuneOnResponse(resp) ==
    CASE resp = Exc                 -> FinetuneExcept                 \* 196
      [] RaisesForStatus(resp.code) -> FinetuneExcept                 \* 200
      [] resp.body = "invalid"      -> FinetuneExcept                 \* 201
      [] resp.body = "nondict"      -> FinetuneExcept                 \* 203
      [] resp.body = "ftid"         -> FinetuneReturn(NewFinetuneId)  \* 203-205
      [] OTHER                      -> FinetuneReturn("")             \* 203-205

\* Mutant of MissingComment: the comment is not checked.
MissingComment_unchecked(comment) == FALSE

\* request_finetuning's guard: if not finetune_comment (line 165)
MissingComment(comment) == comment = ""

\* process in finetune mode: request_finetuning (lines 159-210)
ProcessFinetune ==
    /\ pc = "call"
    /\ mode = "finetune"
    /\ IF ~(FinetuneRequired \subseteq DOMAIN kwargs)
       THEN ProcessExcept /\ UNCHANGED <<posts, last, zip_read>>
       ELSE IF MissingComment(kwargs.finetune_comment)
       THEN FinetuneReturn("") /\ UNCHANGED <<posts, last, zip_read>>         \* 165-167
       ELSE IF zip_state = "missing"
       THEN FinetuneReturn("") /\ UNCHANGED <<posts, last, zip_read>>         \* 169-171
       ELSE IF zip_state = "unreadable"
       THEN FinetuneExcept /\ UNCHANGED <<posts, last, zip_read>>             \* 173
       ELSE /\ zip_read' = TRUE                                      \* 173-174
            /\ \E resp \in SubmitResponses :
                    Post(FinetuneRequest, resp) /\ FinetuneOnResponse(resp)
    /\ UNCHANGED <<entry, mode, x_key, kwargs, zip_state, max_attempts, pendingRun, lastGet,
                   waits, nQueries, nDownloads, onlyPendingOrFailed, readySeen>>

\* process with a mode it does not know (lines 84-86)
ProcessUnknown ==
    /\ pc = "call"
    /\ mode \notin {"generate", "finetune", "inference"}
    /\ Finish(BlankAndEmpty)
    /\ UNCHANGED <<entry, mode, x_key, kwargs, zip_state, max_attempts, pendingRun, lastGet, zip_read,
                   posts, waits, nQueries, nDownloads, last, onlyPendingOrFailed,
                   readySeen>>

\* -------------------------------------------------------------- get_result
\* generate_image passes its output_format, finetune_inference passes
\* kwargs.get("output_format", "png") (lines 145, 246).
OutputFormat == IF Has(kwargs, "output_format") THEN kwargs.output_format ELSE "png"

\* Image.open, img.save(format=output_format.upper()), Image.open (lines
\* 305-313): corrupt bytes do not open, and an RGBA image does not save as JPEG.
DecodeFails(bytes, fmt) == bytes = "corrupt" \/ (bytes = "rgba" /\ fmt = "jpeg")

\* time.sleep(wait_time), lines 280-282
Sleep ==
    /\ pc = "gr_sleep"
    /\ waits' = Append(waits, wait_time(attempt))
    /\ last' = Event("wait", 0, "slept")
    /\ pc' = "gr_query"
    /\ UNCHANGED <<entry, mode, x_key, kwargs, zip_state, max_attempts, pendingRun, lastGet, zip_read, attempt,
                   posts, nQueries, nDownloads, onlyPendingOrFailed, readySeen, ret>>

ReadyBodies == {"ready_url", "ready_nourl", "ready_badresult"}

IsReady(resp) == resp.code = 200 /\ resp.body \in ReadyBodies

IsPending(resp) == resp.code = 200 /\ resp.body = "pending"

\* get_url, headers = {"x-key": x_key}; requests.get(get_url, headers=headers)
StatusRequest ==
    [url |-> "https://api.bfl.ai/v1/get_result?id=t9", headers |-> ("x-key" :> x_key)]

\* Mutant of DownloadRequest: the download sends the credential header too.
DownloadRequest_with_key ==
    [url |-> "https://delivery.example/sample.png", headers |-> ("x-key" :> x_key)]

\* requests.get(sample_url, timeout=30): no headers (line 300)
DownloadRequest ==
    [url |-> "https://delivery.example/sample.png", headers |-> NoKwargs]

IsPendingOrFailed(resp) == resp = Exc \/ resp.code # 200 \/ resp.body = "pending"

\* What get_result does with the status response, lines 286-335
OnStatus(resp) ==
    CASE resp = Exc                     -> GrExcept             \* 285
      [] resp.code # 200                -> OnNon200             \* 323-327
      [] resp.body = "invalid"          -> GrExcept             \* 289
      [] resp.body = "nondict"          -> GrExcept             \* 290
      [] resp.body = "ready_url"        -> pc' = "gr_download" /\ UNCHANGED <<attempt, ret>>
      [] resp.body = "ready_nourl"      -> OnNoSampleUrl        \* 295-298
      [] resp.body = "ready_badresult"  -> GrExcept             \* 294
      [] resp.body = "pending"          -> OnPending            \* 315-317
      [] OTHER                          -> OnUnexpectedStatus   \* 318-321

\* requests.get(get_url, headers, timeout=30) and the branch on its answer
StatusQuery ==
    /\ pc = "gr_query"
    /\ \E resp \in StatusResponses :
        /\ nQueries' = nQueries + 1
        /\ last' = Event("query", resp.code, resp.body)
        /\ onlyPendingOrFailed' = (onlyPendingOrFailed /\ IsPendingOrFailed(resp))
        /\ readySeen' = IF ~IsReady(resp) THEN readySeen
                        ELSE IF readySeen = "none" THEN "once" ELSE "more"
        /\ pendingRun' = IF pendingRun # "all" THEN "broken"
                         ELSE IF IsPending(resp) THEN "all" ELSE "until_last"
        /\ lastGet' = StatusRequest
        /\ OnStatus(resp)
    /\ UNCHANGED <<entry, mode, x_key, kwargs, zip_state, max_attempts, zip_read, posts,
                   waits, nDownloads>>

\* What get_result does with the download response, lines 300-313, 329-335
OnDownload(resp) ==
    CASE resp = Exc                           -> GrExcept           \* 300
      [] resp.code # 200                      -> OnDownloadNon200   \* 301-303
      [] DecodeFails(resp.body, OutputFormat) -> GrExcept           \* 305-311
      [] OTHER                                -> OnDecoded          \* 313

\* requests.get(sample_url, timeout=30), then the decoding of its bytes
Download ==
    /\ pc = "gr_download"
    /\ \E resp \in DownloadResponses :
        /\ nDownloads' = nDownloads + 1
        /\ last' = Event("download", resp.code, resp.body)
        /\ lastGet' = DownloadRequest
        /\ OnDownload(resp)
    /\ UNCHANGED <<entry, mode, x_key, kwargs, zip_state, max_attempts, pendingRun, zip_read, posts,
                   waits, nQueries, onlyPendingOrFailed, readySeen>>

Next ==
    \/ ProcessGenerate
    \/ ProcessFinetune
    \/ ProcessInference
    \/ ProcessUnknown
    \/ Sleep
    \/ StatusQuery
    \/ Download

Spec == Init /\ [][Next]_vars

\* A direct call of get_result alone. Every sleep and every request returns
\* (requests are sent with timeout=30), so a call that can take a step takes it.
InitPoll == Init /\ entry = "get_result"

NextPoll ==
    \/ Sleep
    \/ StatusQuery
    \/ Download

SpecPoll == InitPoll /\ [][NextPoll]_vars /\ WF_vars(NextPoll)

\* ===================================================================== claims
Image == ret[1]

\* The latest event is a download whose bytes decoded.
DecodedNow ==
    last.ev = "download" /\ last.code = 200 /\ ~DecodeFails(last.out, OutputFormat)

\* The latest event is a finetune submission the service accepted.
FinetuneAccepted ==
    /\ mode = "finetune" /\ last.ev = "post" /\ last.out # "exc"
    /\ last.code < 400 /\ last.out \notin {"invalid", "nondict"}

PassedFinetuneId == IF Has(kwargs, "finetune_id") THEN {kwargs.finetune_id} ELSE {}

\* C1: process never lets an exception out and always returns a pair (image,
\* text); on every failure path the image is the placeholder and the text is
\* "" or the finetune id that was passed in.
C1_ProcessAlwaysReturnsPair ==
    /\ pc \in {"call", "gr_sleep", "gr_query", "gr_download", "done"}
    /\ (pc = "done" /\ entry = "process") =>
          /\ Len(ret) = 2
          /\ ret[1] \in {"blank", "decoded"}
          /\ ~(DecodedNow \/ FinetuneAccepted) =>
                (ret[1] = "blank" /\ ret[2] \in {""} \cup PassedFinetuneId)

C1_Witness ==
    /\ pc = "done" /\ entry = "process" /\ mode = "inference"
    /\ last = Event("download", 200, "corrupt")
    /\ attempt = max_attempts
    /\ ret = <<"blank", "ft-42">>

\* C2: when every status query answers Pending, non-200 or with an exception,
\* get_result makes exactly max_attempts queries and max_attempts waits and
\* returns the placeholder; it never makes more than max_attempts of either.
C2_ExactlyBudgetAttempts ==
    /\ nQueries <= max_attempts
    /\ Len(waits) <= max_attempts
    /\ (pc = "done" /\ Len(waits) > 0 /\ onlyPendingOrFailed) =>
          /\ nQueries = max_attempts
          /\ Len(waits) = max_attempts
          /\ Image = "blank"

C2_Witness ==
    /\ pc = "done" /\ onlyPendingOrFailed
    /\ max_attempts = DefaultMaxAttempts
    /\ nQueries = DefaultMaxAttempts
    /\ last = Event("query", 200, "pending")

\* C3: the wait before the status query of attempt n is min(2^n + 5, 30): the
\* waits are 7, 9, 13, 21, 30, 30, ..., none above 30, and one wait comes
\* before every status query, the first included.
ExpectedWaits == <<7, 9, 13, 21, 30, 30, 30, 30, 30, 30, 30, 30, 30, 30, 30>>

C3_BackoffSequence ==
    /\ Len(waits) <= Len(ExpectedWaits)
    /\ \A n \in 1 .. Len(waits) : waits[n] = ExpectedWaits[n] /\ waits[n] <= 30
    /\ Len(waits) = nQueries + (IF pc = "gr_query" THEN 1 ELSE 0)

C3_Witness ==
    /\ Len(waits) = 7
    /\ nQueries = 7
    /\ waits = <<7, 9, 13, 21, 30, 30, 30>>

\* C4: when the k-th status query is the first to answer Ready, with a sample
\* URL, and the download and the decoding succeed, get_result returns the
\* decoded image after exactly k queries and k waits, whatever budget is left.
C4_ReadyShortCircuits ==
    (DecodedNow /\ readySeen = "once") =>
        /\ pc = "done"
        /\ Image = "decoded"
        /\ nQueries = attempt
        /\ Len(waits) = attempt
        /\ nDownloads = 1

C4_Witness ==
    /\ DecodedNow /\ readySeen = "once" /\ pc = "done"
    /\ attempt = 3 /\ nQueries = 3 /\ max_attempts = DefaultMaxAttempts
    /\ Image = "decoded"

\* C5: a 200 status response whose status is neither Pending nor Ready (Error,
\* another string, no status field) ends get_result with the placeholder at
\* once: nothing is waited for, queried or downloaded after it.
UnexpectedStatusNow ==
    last.ev = "query" /\ last.code = 200 /\ last.out \in {"error", "other", "nostatus"}

C5_UnexpectedStatusTerminal ==
    UnexpectedStatusNow =>
        /\ pc = "done"
        /\ Image = "blank"
        /\ nQueries = attempt
        /\ Len(waits) = attempt

C5_Witness ==
    /\ UnexpectedStatusNow /\ last.out = "nostatus" /\ pc = "done"
    /\ attempt = 2 /\ max_attempts = DefaultMaxAttempts /\ nDownloads = 0
    /\ Image = "blank"

\* C6: after a Ready status, a missing sample URL, a download that fails at
\* the transport level and a download that answers non-2xx each end
\* get_result with the placeholder at once, attempts left or not.
C6_ReadyFailuresTerminal ==
    (\/ last.ev = "query" /\ last.code = 200 /\ last.out = "ready_nourl"
     \/ last.ev = "download" /\ (last.out = "exc" \/ last.code # 200)) =>
        (pc = "done" /\ Image = "blank")

\* C7: a generate request with an empty prompt returns (placeholder, "") with
\* no submission, no status query, no download and no wait.
C7_EmptyPromptNoNetwork ==
    (entry = "process" /\ mode = "generate" /\ kwargs.prompt = "") =>
        /\ posts = <<>> /\ waits = <<>> /\ nQueries = 0 /\ nDownloads = 0
        /\ pc \in {"call", "done"}
        /\ pc = "done" => ret = <<"blank", "">>

C7_Witness ==
    /\ pc = "done" /\ mode = "generate" /\ kwargs.prompt = ""
    /\ ~kwargs.ultra_mode /\ Has(kwargs, "seed")
    /\ ret = <<"blank", "">> /\ posts = <<>>

\* C8: a generate submission in ultra mode carries aspect_ratio and raw, no
\* width or height, and goes to the ultra endpoint; otherwise it carries the
\* width and height looked up for the aspect ratio (default (1408, 800)), no
\* aspect_ratio, and goes to the standard endpoint.
C8_PayloadShapeByUltraMode ==
    mode = "generate" =>
        \A i \in 1 .. Len(posts) :
            LET keys == DOMAIN posts[i].json IN
            IF kwargs.ultra_mode
            THEN /\ posts[i].url = "https://api.bfl.ai/v1/flux-pro-1.1-ultra"
                 /\ {"aspect_ratio", "raw"} \subseteq keys
                 /\ {"width", "height"} \cap keys = {}
            ELSE /\ posts[i].url = "https://api.bfl.ai/v1/flux-pro-1.1"
                 /\ {"width", "height"} \subseteq keys
                 /\ "aspect_ratio" \notin keys
                 /\ <<posts[i].json.width, posts[i].json.height>>
                        = get_dimensions_from_ratio(kwargs.aspect_ratio)
                 /\ kwargs.aspect_ratio = "2:1" =>
                        (posts[i].json.width = 1408 /\ posts[i].json.height = 800)
                 /\ kwargs.aspect_ratio = "9:21" =>
                        (posts[i].json.width = 608 /\ posts[i].json.height = 1408)

C8_Witness ==
    /\ mode = "generate" /\ Len(posts) = 1 /\ ~kwargs.ultra_mode
    /\ kwargs.aspect_ratio = "2:1"
    /\ posts[1].json.width = 1408 /\ posts[1].json.height = 800

\* C9: in every payload of an operation that takes a seed (generate in both
\* modes, inference) the seed field is present if and only if the input seed
\* is not the sentinel -1.
C9_SeedIffNotSentinel ==
    mode \in {"generate", "inference"} =>
        \A i \in 1 .. Len(posts) :
            Has(posts[i].json, "seed") <=> (SeedArg # -1)

\* C10: an inference request that supplies a finetune_id gets that id back as
\* the text on every path, success or failure.
C10_InferenceTextIsFinetuneId ==
    (pc = "done" /\ mode = "inference" /\ Has(kwargs, "finetune_id")) =>
        (Len(ret) = 2 /\ ret[2] = kwargs.finetune_id)

C10_Witness ==
    /\ pc = "done" /\ mode = "inference" /\ Has(kwargs, "finetune_id")
    /\ last = Event("post", 0, "exc")
    /\ ret = <<"blank", "ft-42">>

\* C11: a finetune request whose comment is empty, or whose archive path does
\* not exist, returns (placeholder, "") with no network call; the archive is
\* not read.
C11_FinetuneValidationNoNetwork ==
    (/\ entry = "process" /\ mode = "finetune"
     /\ FinetuneRequired \subseteq DOMAIN kwargs
     /\ (kwargs.finetune_comment = "" \/ zip_state = "missing")) =>
        /\ posts = <<>> /\ waits = <<>> /\ nQueries = 0 /\ nDownloads = 0
        /\ ~zip_read
        /\ pc \in {"call", "done"}
        /\ pc = "done" => ret = <<"blank", "">>

C11_Witness ==
    /\ pc = "done" /\ mode = "finetune"
    /\ FinetuneRequired \subseteq DOMAIN kwargs
    /\ kwargs.finetune_comment = "" /\ zip_state = "readable"
    /\ ret = <<"blank", "">> /\ posts = <<>> /\ ~zip_read

\* C12: a finetune request never polls (no wait, status query or download) and
\* submits once. An accepted submission returns the placeholder with the
\* response's finetune id, or with "" when the body has none; a submission
\* that fails (transport error, error status) returns (placeholder, "").
FinetuneSubmissionFailed == last.out = "exc" \/ last.code \notin {200, 202}

SubmissionFailedNow ==
    /\ last.ev = "post"
    /\ \/ last.out = "exc"
       \/ last.code \notin {200, 202}
       \/ last.out \in {"invalid", "nondict", "empty", "noid", "ftid"}

C14_NoCredentialNoNetwork ==
    (entry = "process" /\ x_key = "") =>
        /\ posts = <<>> /\ nQueries = 0 /\ nDownloads = 0
        /\ pc = "done" => ret[1] = "blank"

\* C16: a request whose prompt is empty, in generate and in inference mode,
\* returns the placeholder without any network call.
C16_EmptyPromptNoNetworkAnyMode ==
    (entry = "process" /\ mode \in {"generate", "inference"} /\ kwargs.prompt = "") =>
        /\ posts = <<>> /\ nQueries = 0 /\ nDownloads = 0
        /\ pc = "done" => ret[1] = "blank"

\* C17: when a Ready status is followed by a 2xx download whose bytes fail to
\* decode or re-encode, get_result returns the placeholder for that call: no
\* further polling replaces it.
DecodeFailedNow ==
    last.ev = "download" /\ last.code = 200 /\ DecodeFails(last.out, OutputFormat)

C17_DecodeFailureGivesPlaceholder ==
    DecodeFailedNow => (pc = "done" /\ Image = "blank")

\* C18: a generate or inference invocation is submit, then (wait, query)
\* pairs, then at most one download and decode: nothing is waited for or
\* queried before the submission, one wait comes right before each query, a
\* download follows only a Ready answer with a sample URL, and no wait or
\* query follows a download.
C18_SubmitPollDownloadOrder ==
    (entry = "process" /\ mode \in {"generate", "inference"}) =>
        /\ (waits # <<>> \/ pc \in {"gr_sleep", "gr_query", "gr_download"})
              => Len(posts) = 1
        /\ Len(waits) = nQueries + (IF pc = "gr_query" THEN 1 ELSE 0)
        /\ pc = "gr_query" => last.ev = "wait"
        /\ pc = "gr_download" => last = Event("query", 200, "ready_url")
        /\ nDownloads <= 1
        /\ nDownloads = 1 => last.ev = "download"

\* Scenario D: inference with finetune id "ft-42", the submission returned a
\* task id, the status queries answered Pending, Pending, Ready, and the
\* download decoded.
ScenarioD ==
    /\ entry = "process" /\ mode = "inference"
    /\ Has(kwargs, "finetune_id") /\ kwargs.finetune_id = "ft-42"
    /\ pc = "done" /\ Len(posts) = 1
    /\ nQueries = 3 /\ pendingRun = "until_last" /\ readySeen = "once"
    /\ DecodedNow

\* C15 as stated: in scenario D exactly two waits, of 7 and 9 seconds, are
\* observed, and process returns the decoded image with the text "ft-42".
C15_ScenarioD_TwoWaits ==
    ScenarioD => (waits = <<7, 9>> /\ ret = <<"decoded", "ft-42">>)

\* C15 as amended: in scenario D exactly three waits, of 7, 9 and 13 seconds,
\* are observed (one before each status query), and process returns the
\* decoded image with the text "ft-42".
C15_ScenarioD_ThreeWaits ==
    ScenarioD =>
        /\ waits = <<7, 9, 13>>
        /\ ret = <<"decoded", "ft-42">>
        /\ nDownloads = 1

C15_Witness ==
    ScenarioD /\ Len(waits) = 3 /\ ret = <<"decoded", "ft-42">>

\* C19: polling terminates. Every retry re-enters get_result with attempt
\* increased by exactly one, attempt never decreases, nothing is waited for or
\* queried once attempt > max_attempts, the recursion is at most
\* max_attempts + 1 deep, and get_result eventually returns.
C19_PollingTerminates ==
    /\ [][/\ attempt' \in {attempt, attempt + 1}
          /\ pc' = "gr_sleep" => attempt' = attempt + 1
          /\ pc' = "gr_query" => attempt' = attempt]_vars
    /\ [](pc \in {"gr_sleep", "gr_query", "gr_download"} => attempt <= max_attempts)
    /\ [](attempt <= max_attempts + 1)
    /\ <>(pc = "done")

C19_Witness ==
    /\ pc = "done" /\ entry = "get_result"
    /\ max_attempts = DefaultMaxAttempts
    /\ attempt = DefaultMaxAttempts + 1
    /\ nQueries = DefaultMaxAttempts

\* C20: the credential x_key leaves only as a header of the submission POST
\* and of the status GETs: no JSON body holds it, under any key, and the
\* download GET of the sample URL carries no credential.
NonStringFields == {"safety_tolerance", "raw", "seed", "width", "height",
                    "iterations", "captioning", "lora_rank"}

CredentialHeaders == {"x-key", "X-Key"}

C20_CredentialOnlyInHeaders ==
    /\ \A i \in 1 .. Len(posts) :
          /\ ({"x_key"} \cup CredentialHeaders) \cap DOMAIN posts[i].json = {}
          /\ x_key # "" =>
                \A k \in (DOMAIN posts[i].json) \ NonStringFields :
                    posts[i].json[k] # x_key
          /\ \E h \in CredentialHeaders \cap DOMAIN posts[i].headers :
                posts[i].headers[h] = x_key
    /\ last.ev = "query" =>
          (Has(lastGet.headers, "x-key") /\ lastGet.headers["x-key"] = x_key)
    /\ last.ev = "download" =>
          /\ CredentialHeaders \cap DOMAIN lastGet.headers = {}
          /\ \A h \in DOMAIN lastGet.headers : lastGet.headers[h] # x_key

C20_Witness ==
    /\ entry = "process" /\ mode = "inference" /\ x_key = "key-1"
    /\ Len(posts) = 1 /\ Has(posts[1].json, "seed")
    /\ last.ev = "download"
    /\ lastGet.url = "https://delivery.example/sample.png"

====
